---- MODULE Spec2Model ----
(***************************************************************************)
(* Model of the patch-to-commit pipeline and of the repository access      *)
(* guard of server/tasks.py (and its legacy twin                           *)
(* server/github_integration.py).                                          *)
(*                                                                         *)
(* Strings are sequences of one-character strings, so that startswith,     *)
(* slicing, split('\n') and '\n'.join are computed as Python computes      *)
(* them.  A line is such a sequence without "\n".                          *)
(***************************************************************************)
EXTENDS Integers, Sequences, FiniteSets, TLC

VARIABLES
    \* ---- apply_diff_to_content (one call) ----
    original_content,   \* argument: current content of the file
    diff_lines,         \* argument: lines[j:] handed over by the splitter
    result_lines,       \* local list of emitted lines
    diff_result,        \* returned content
    dpc,                \* "call" before the call, "done" after it
    \* ---- apply_patch_to_github_repo (one call) ----
    sections,           \* the file sections the stored patch is made of (input)
    patch_content,      \* argument: the stored unified diff, one string
    files_to_update,    \* local dict path -> new content, in insertion order
    updated_files,      \* local list of paths
    current_commit,     \* local: the tip commit read (0 before the read)
    tree_elements,      \* local list of {path, sha} tree entries
    new_tree,           \* local: the tree object created
    new_commit,         \* local: the commit object created (0 before)
    idx,                \* position of the running for loop in files_to_update
    file_sha,           \* local file_obj.sha of the per-file path
    ret,                \* the returned list
    pc,                 \* position of the call
    \* ---- the remote repository ----
    commits,            \* commit objects: id -> [tree, parents, by]
    branch_ref,         \* the commit the branch points to
    blobs,              \* blob objects created by create_git_blob
    \* ---- history ----
    writes_ok,          \* paths whose per-file write succeeded, in order
    writes_tried,       \* create/update calls issued: <<kind, path>>
    others,             \* commits pushed by other writers so far
    mode,               \* "atomic", "fallback" once the except branch is
                        \* entered, "atomic_ok" once the ref was moved
    \* ---- validate_github_token (one call per probe) ----
    req,                \* request of each probe: [token, url] present or not
    ppc,                \* position of each probe
    test_branch_name,   \* local: the timestamp in test-permissions-<timestamp>
    permissions,        \* local dict of each probe
    response,           \* the response of each probe
    repo_branches,      \* probe branches on the remote: [name, by]
    clock,              \* int(time.time())
    created,            \* history: the probes whose create_git_ref succeeded
    plog,               \* history: the remote calls of each probe, <<call, outcome>>
    \* ---- create_pull_request (one request) ----
    pr_req,             \* the request and the task it names: [user, found,
                        \* status, token]; the task's git_patch is patch_content
    prpc,               \* position of the request
    base_ref,           \* remote: the commit the base branch points to
    base_sha,           \* local: the base branch tip read (0 before the read)
    pulls,              \* remote: the pull requests created, [head, base]
    task_store,         \* the PR fields of the task's record (<<>> when unset)
    pr_response,        \* the response (<<>> before it is sent)
    prlog               \* history: the calls of the request, <<call, outcome>>

diffVars == <<original_content, diff_lines, result_lines, diff_result, dpc>>

patchVars == <<sections, patch_content, files_to_update, updated_files,
               current_commit, tree_elements, new_tree, new_commit, idx,
               file_sha, ret, pc>>

remoteVars == <<commits, branch_ref, blobs>>

histVars == <<writes_ok, writes_tried, others, mode>>

probeVars == <<req, ppc, test_branch_name, permissions, response,
               repo_branches, clock, created, plog>>

prVars == <<pr_req, prpc, base_ref, base_sha, pulls, task_store, pr_response, prlog>>

vars == <<diffVars, patchVars, remoteVars, histVars, probeVars, prVars>>

(***************************************************************************)
(* Bounds.                                                                 *)
(***************************************************************************)
MaxBody == 3
MaxSections == 2
MaxFiles == 3
MaxOthers == 1
MaxBasePush == 1
MaxClock == 1

(***************************************************************************)
(* Python string primitives.                                               *)
(***************************************************************************)
NL == "\n"

StartsWith(s, p) == Len(s) >= Len(p) /\ SubSeq(s, 1, Len(p)) = p

\* s[k:] for a 0-based k
DropFirst(s, k) == SubSeq(s, k + 1, Len(s))

Whitespace == {" ", "\t"}

\* line.strip() == ''
StripIsEmpty(s) == \A i \in 1..Len(s) : s[i] \in Whitespace

RECURSIVE JoinNL(_)
\* '\n'.join(ls)
JoinNL(ls) ==
    IF ls = <<>> THEN <<>>
    ELSE IF Len(ls) = 1 THEN ls[1]
    ELSE ls[1] \o <<NL>> \o JoinNL(Tail(ls))

\* the positions of the newline characters of s
NewlinePositions(s) == { i \in 1..Len(s) : s[i] = NL }

\* the position of the n-th newline of s
NthNewline(s, n) ==
    CHOOSE i \in NewlinePositions(s) :
        Cardinality({ j \in NewlinePositions(s) : j < i }) = n - 1

\* s.split('\n'): the pieces between consecutive newlines, empty ones kept
SplitNL(s) ==
    LET count == Cardinality(NewlinePositions(s)) IN
    [ n \in 1..(count + 1) |->
        SubSeq(s,
               IF n = 1 THEN 1 ELSE NthNewline(s, n - 1) + 1,
               IF n = count + 1 THEN Len(s) ELSE NthNewline(s, n) - 1) ]

(***************************************************************************)
(* Marker prefixes of the unified diff format, as the code spells them.    *)
(***************************************************************************)
PfxOldA    == <<"-", "-", "-", " ", "a", "/">>
PfxOldNull == <<"-", "-", "-", " ", "/", "d", "e", "v", "/", "n", "u", "l", "l">>
PfxNewB    == <<"+", "+", "+", " ", "b", "/">>
PfxHunk    == <<"@", "@">>
PfxDiffGit == <<"d", "i", "f", "f", " ", "-", "-", "g", "i", "t">>
Pfx3Plus   == <<"+", "+", "+">>
Pfx3Minus  == <<"-", "-", "-">>

(***************************************************************************)
(* apply_diff_to_content                                                   *)
(***************************************************************************)
RECURSIVE FirstHunkFrom(_, _)
\* index (1-based) of the first line at or after k that starts with '@@',
\* 0 when there is none
FirstHunkFrom(ls, k) ==
    IF k > Len(ls) THEN 0
    ELSE IF StartsWith(ls[k], PfxHunk) THEN k
    ELSE FirstHunkFrom(ls, k + 1)

\* diff_start of the code (0-based index of the first line walked)
DiffStart(ls) == FirstHunkFrom(ls, 1)

\* a slip that would keep removed lines: the '-' branch emits like context
LineClassRemovedKept(line) ==
    IF StartsWith(line, Pfx3Plus) \/ StartsWith(line, Pfx3Minus) THEN "meta"
    ELSE IF StartsWith(line, <<"+">>) THEN "added"
    ELSE IF StartsWith(line, <<" ">>) \/ StartsWith(line, <<"-">>) THEN "context"
    ELSE IF StripIsEmpty(line) THEN "blank"
    ELSE IF StartsWith(line, PfxDiffGit) \/ StartsWith(line, PfxOldA) THEN "break"
    ELSE "other"

\* the branch of the if/elif chain a line takes
LineClass(line) ==
    IF StartsWith(line, Pfx3Plus) \/ StartsWith(line, Pfx3Minus) THEN "meta"
    ELSE IF StartsWith(line, <<"+">>) THEN "added"
    ELSE IF StartsWith(line, <<" ">>) THEN "context"
    ELSE IF StartsWith(line, <<"-">>) THEN "removed"
    ELSE IF StripIsEmpty(line) THEN "blank"
    ELSE IF StartsWith(line, PfxDiffGit) \/ StartsWith(line, PfxOldA) THEN "break"
    ELSE "other"

RECURSIVE Walk(_, _, _)
\* the for loop over diff_lines[diff_start:], k is 1-based
Walk(ls, k, acc) ==
    IF k > Len(ls) THEN acc
    ELSE LET c == LineClass(ls[k]) IN
         IF c = "break" THEN acc
         ELSE IF c \in {"added", "context"}
              THEN Walk(ls, k + 1, Append(acc, DropFirst(ls[k], 1)))
              ELSE Walk(ls, k + 1, acc)

WalkResult(ls) == Walk(ls, DiffStart(ls) + 1, <<>>)

\* a slip that would return the empty string when nothing was emitted
FallbackEmpty(orig) == <<>>

\* the else branch of "if result_lines": the original content
FallbackContent(orig) == orig

apply_diff_to_content(orig, ls) ==
    LET r == WalkResult(ls) IN
    IF r # <<>> THEN JoinNL(r) ELSE FallbackContent(orig)

(***************************************************************************)
(* Inputs of apply_diff_to_content.                                        *)
(***************************************************************************)
HunkHeader == <<"@", "@", " ", "-", "0", ",", "0", " ", "+", "1", ",", "2", " ", "@", "@">>

AddedLines   == { <<"+", "a">>, <<"+", "b">>, <<"+">>, <<"+", "+", "+", "i">> }
ContextLines == { <<" ", "c">>, <<" ">> }
RemovedLines == { <<"-", "a">>, <<"-", "x">>, <<"-", "-", "-", "y">> }
OtherLines   == { <<>>,
                  <<"\\", " ", "N", "o">>,
                  PfxDiffGit \o <<" ", "a", "/", "g">>,
                  PfxOldA \o <<"g">>,
                  PfxNewB \o <<"g">> }

DiffLineSet == AddedLines \cup ContextLines \cup RemovedLines \cup OtherLines

SeqsUpTo(S, n) == UNION { [1..m -> S] : m \in 0..n }

OriginalSet == { <<>>, <<"x", NL, "y">> }

DiffInputs ==
    { <<>> } \cup { <<HunkHeader>> \o b : b \in SeqsUpTo(DiffLineSet, MaxBody) }

Probes == {1, 2}

\* no validate-token request
ProbeIdle ==
    /\ req = [p \in Probes |-> [token |-> FALSE, url |-> FALSE]]
    /\ ppc = [p \in Probes |-> "idle"]
    /\ test_branch_name = [p \in Probes |-> 0]
    /\ permissions = [p \in Probes |-> <<>>]
    /\ response = [p \in Probes |-> <<>>]
    /\ repo_branches = {}
    /\ clock = 0
    /\ created = {}
    /\ plog = [p \in Probes |-> <<>>]

\* no create-PR request
PRIdle ==
    /\ pr_req = <<>>
    /\ prpc = "idle"
    /\ base_ref = 0
    /\ base_sha = 0
    /\ pulls = <<>>
    /\ task_store = <<>>
    /\ pr_response = <<>>
    /\ prlog = <<>>

\* the variables of apply_patch_to_github_repo and of the remote, idle
PatchIdle ==
    /\ sections = <<>>
    /\ patch_content = <<>>
    /\ files_to_update = <<>>
    /\ updated_files = <<>>
    /\ current_commit = 0
    /\ tree_elements = <<>>
    /\ new_tree = <<>>
    /\ new_commit = 0
    /\ idx = 0
    /\ file_sha = <<>>
    /\ ret = <<>>
    /\ pc = "idle"
    /\ commits = <<>>
    /\ branch_ref = 0
    /\ blobs = {}
    /\ writes_ok = <<>>
    /\ writes_tried = <<>>
    /\ others = 0
    /\ mode = "atomic"

DiffInit ==
    /\ original_content \in OriginalSet
    /\ diff_lines \in DiffInputs
    /\ result_lines = <<>>
    /\ diff_result = <<>>
    /\ dpc = "call"
    /\ PatchIdle
    /\ ProbeIdle
    /\ PRIdle

Reconstruct ==
    /\ dpc = "call"
    /\ result_lines' = WalkResult(diff_lines)
    /\ diff_result' = apply_diff_to_content(original_content, diff_lines)
    /\ dpc' = "done"
    /\ UNCHANGED <<original_content, diff_lines>>
    /\ UNCHANGED <<patchVars, remoteVars, histVars>>
    /\ UNCHANGED <<probeVars, prVars>>

DiffNext == Reconstruct

SpecDiff == DiffInit /\ [][DiffNext]_vars

(***************************************************************************)
(* The remote repository.                                                  *)
(***************************************************************************)
Digits == <<"1", "2", "3", "4", "5", "6">>

\* the path of the i-th file
PathOf(i) == <<"f", Digits[i]>>

\* the tree of the branch tip before the call: one existing file
BaseTree == (PathOf(1) :> <<"x", NL, "y">>)

RemoteInit ==
    /\ commits = << [tree |-> BaseTree, parents |-> <<>>, by |-> "base"] >>
    /\ branch_ref = 1
    /\ blobs = {}

\* the tree a reader of the branch sees
HeadTree == commits[branch_ref].tree

\* repo.get_contents(path, ref=branch) inside try/except: the content, or ""
\* when the file is absent or the read raises
GetContentsOrEmpty(tree, path, fails) ==
    IF path \in DOMAIN tree /\ path \notin fails THEN tree[path] ELSE <<>>

(***************************************************************************)
(* apply_patch_to_github_repo: the splitting loop.                         *)
(***************************************************************************)
NewPathOffset == 6

IsOldHeader(line) == StartsWith(line, PfxOldA) \/ StartsWith(line, PfxOldNull)

\* line i is an old-file header and line i+1 exists and starts with '+++ b/'
IsHeaderPair(ls, k) ==
    /\ IsOldHeader(ls[k])
    /\ k + 1 <= Len(ls)
    /\ StartsWith(ls[k + 1], PfxNewB)

RECURSIVE HunkIndex(_, _)
\* the inner while: the first j >= k whose line starts with '@@', Len+1 if none
HunkIndex(ls, k) ==
    IF k > Len(ls) THEN k
    ELSE IF StartsWith(ls[k], PfxHunk) THEN k
    ELSE HunkIndex(ls, k + 1)

KeyIndex(d, key) ==
    IF \E n \in 1..Len(d) : d[n].path = key
    THEN CHOOSE n \in 1..Len(d) : d[n].path = key
    ELSE 0

\* d[key] = val on an insertion-ordered dict
DictSet(d, key, val) ==
    IF KeyIndex(d, key) = 0
    THEN Append(d, [path |-> key, content |-> val])
    ELSE [d EXCEPT ![KeyIndex(d, key)].content = val]

Keys(d) == [n \in 1..Len(d) |-> d[n].path]

RECURSIVE SplitLoop(_, _, _, _, _)
\* the while loop over lines; k is 1-based
SplitLoop(ls, k, acc, tree, fails) ==
    IF k > Len(ls) THEN acc
    ELSE IF IsHeaderPair(ls, k)
    THEN LET current_file == DropFirst(ls[k + 1], NewPathOffset)
             orig == GetContentsOrEmpty(tree, current_file, fails)
             j    == HunkIndex(ls, k + 2)
             acc2 == IF j <= Len(ls)
                     THEN DictSet(acc, current_file,
                                  apply_diff_to_content(orig, SubSeq(ls, j, Len(ls))))
                     ELSE acc
         IN SplitLoop(ls, j + 1, acc2, tree, fails)
    ELSE SplitLoop(ls, k + 1, acc, tree, fails)

ParsePatchLines(patch, tree, fails) ==
    SplitLoop(SplitNL(patch), 1, <<>>, tree, fails)

(***************************************************************************)
(* Patches: a patch is rendered from file sections.                        *)
(***************************************************************************)
RenderSection(sec) ==
    (IF sec.dg
        THEN << PfxDiffGit \o <<" ", "a", "/">> \o sec.path \o <<" ", "b", "/">> \o sec.path >>
        ELSE <<>>)
    \o << IF sec.old = "a" THEN PfxOldA \o sec.path ELSE PfxOldNull >>
    \o << PfxNewB \o sec.path >>
    \o (IF sec.hunk THEN <<HunkHeader>> \o sec.body ELSE <<>>)

RECURSIVE RenderLines(_)
RenderLines(secs) ==
    IF secs = <<>> THEN <<>>
    ELSE RenderSection(secs[1]) \o RenderLines(Tail(secs))

RenderPatch(secs) == JoinNL(RenderLines(secs))

PathsOf(secs) == { secs[n].path : n \in 1..Len(secs) }

DiffIdle ==
    /\ original_content = <<>>
    /\ diff_lines = <<>>
    /\ result_lines = <<>>
    /\ diff_result = <<>>
    /\ dpc = "idle"

PatchStart(secs) ==
    /\ sections = secs
    /\ patch_content = RenderPatch(secs)
    /\ files_to_update = <<>>
    /\ updated_files = <<>>
    /\ current_commit = 0
    /\ tree_elements = <<>>
    /\ new_tree = <<>>
    /\ new_commit = 0
    /\ idx = 0
    /\ file_sha = <<>>
    /\ ret = <<>>
    /\ pc = "parse"
    /\ writes_ok = <<>>
    /\ writes_tried = <<>>
    /\ others = 0
    /\ mode = "atomic"

\* lines 533-583: split the patch, reconstruct each file, return [] when
\* nothing was extracted
ParsePatch ==
    /\ pc = "parse"
    /\ \E fails \in SUBSET PathsOf(sections) :
         files_to_update' = ParsePatchLines(patch_content, HeadTree, fails)
    /\ IF files_to_update' = <<>>
       THEN pc' = "returned"
       ELSE pc' = "tip"
    /\ ret' = <<>>
    /\ UNCHANGED <<sections, patch_content, updated_files, current_commit,
                   tree_elements, new_tree, new_commit, idx, file_sha>>
    /\ UNCHANGED <<diffVars, remoteVars, histVars>>
    /\ UNCHANGED <<probeVars, prVars>>

(***************************************************************************)
(* The splitter alone, on patches of up to MaxSections file sections.      *)
(***************************************************************************)
SplitBodies == { << <<"+", "a">> >>,
                 << <<"+", "b">>, <<" ", "c">> >>,
                 << <<"-", "x">>, <<" ", "c">> >> }

SplitShapes ==
    { [dg |-> d, old |-> o, path |-> PathOf(i), hunk |-> TRUE, body |-> b] :
        d \in BOOLEAN, o \in {"a", "null"}, i \in 1..2, b \in SplitBodies }
    \cup
    { [dg |-> d, old |-> "a", path |-> PathOf(i), hunk |-> FALSE, body |-> <<>>] :
        d \in BOOLEAN, i \in 1..2 }

SplitInputs == UNION { [1..m -> SplitShapes] : m \in 1..MaxSections }

SplitInit ==
    /\ DiffIdle
    /\ RemoteInit
    /\ \E secs \in SplitInputs : PatchStart(secs)
    /\ ProbeIdle
    /\ PRIdle

SplitNext == ParsePatch

SpecSplit == SplitInit /\ [][SplitNext]_vars

(***************************************************************************)
(* apply_patch_to_github_repo: the commit builder.                         *)
(***************************************************************************)
\* a tree with one path set
WithFile(tree, path, content) ==
    [ q \in (DOMAIN tree) \cup {path} |-> IF q = path THEN content ELSE tree[q] ]

\* a slip that would put only the first tree element into the tree
TreeOverlayFirstOnly(base, elems) ==
    IF elems = <<>> THEN base ELSE WithFile(base, elems[1].path, elems[1].sha)

\* a slip that would leave the last tree element out of the tree
TreeOverlayDropLast(base, elems) ==
    IF elems = <<>> THEN base
    ELSE LET n == Len(elems) - 1 IN
         [ q \in (DOMAIN base) \cup { elems[k].path : k \in 1..n } |->
             IF \E k \in 1..n : elems[k].path = q
             THEN elems[CHOOSE k \in 1..n : elems[k].path = q].sha
             ELSE base[q] ]

\* repo.create_git_tree(tree_elements, base_tree=...): the base tree with
\* every listed path replaced, unlisted paths unchanged
TreeOverlay(base, elems) ==
    LET ps == { elems[n].path : n \in 1..Len(elems) } IN
    [ q \in (DOMAIN base) \cup ps |->
        IF q \in ps
        THEN elems[CHOOSE n \in 1..Len(elems) :
                      /\ elems[n].path = q
                      /\ \A m \in (n + 1)..Len(elems) : elems[m].path # q].sha
        ELSE base[q] ]

\* parents=[current_commit.commit]
CommitParents(cur) == <<cur>>

RECURSIVE IsAncestorOrSelf(_, _)
\* commit a is commit b or one of its ancestors
IsAncestorOrSelf(a, b) ==
    \/ a = b
    \/ \E n \in 1..Len(commits[b].parents) : IsAncestorOrSelf(a, commits[b].parents[n])

\* the except branch at line 633: the per-file loop starts over the plan
EnterFallback ==
    /\ pc' = "fb_read"
    /\ idx' = 1
    /\ mode' = "fallback"

\* line 597: repo.get_commit(branch)
GetTip ==
    /\ pc = "tip"
    /\ \/ /\ current_commit' = branch_ref
          /\ pc' = "blob"
          /\ idx' = 1
          /\ UNCHANGED mode
       \/ /\ EnterFallback
          /\ UNCHANGED current_commit
    /\ UNCHANGED <<sections, patch_content, files_to_update, updated_files,
                   tree_elements, new_tree, new_commit, file_sha, ret>>
    /\ UNCHANGED <<diffVars, remoteVars, writes_ok, writes_tried, others>>
    /\ UNCHANGED <<probeVars, prVars>>

\* lines 602-615: one pass of the blob loop
CreateBlob ==
    /\ pc = "blob"
    /\ LET f == files_to_update[idx] IN
       \/ /\ blobs' = blobs \cup {f.content}
          /\ tree_elements' = Append(tree_elements, [path |-> f.path, sha |-> f.content])
          /\ updated_files' = Append(updated_files, f.path)
          /\ idx' = idx + 1
          /\ pc' = IF idx = Len(files_to_update) THEN "tree" ELSE "blob"
          /\ UNCHANGED mode
       \/ /\ EnterFallback
          /\ UNCHANGED <<blobs, tree_elements, updated_files>>
    /\ UNCHANGED <<sections, patch_content, files_to_update, current_commit,
                   new_tree, new_commit, file_sha, ret>>
    /\ UNCHANGED <<diffVars, commits, branch_ref, writes_ok, writes_tried, others>>
    /\ UNCHANGED <<probeVars, prVars>>

\* line 618: repo.create_git_tree
CreateTree ==
    /\ pc = "tree"
    /\ \/ /\ new_tree' = TreeOverlay(commits[current_commit].tree, tree_elements)
          /\ pc' = "commit"
          /\ UNCHANGED <<idx, mode>>
       \/ /\ EnterFallback
          /\ UNCHANGED new_tree
    /\ UNCHANGED <<sections, patch_content, files_to_update, updated_files,
                   current_commit, tree_elements, new_commit, file_sha, ret>>
    /\ UNCHANGED <<diffVars, remoteVars, writes_ok, writes_tried, others>>
    /\ UNCHANGED <<probeVars, prVars>>

\* lines 621-625: repo.create_git_commit
CreateCommit ==
    /\ pc = "commit"
    /\ \/ /\ commits' = Append(commits, [tree    |-> new_tree,
                                         parents |-> CommitParents(current_commit),
                                         by      |-> "atomic"])
          /\ new_commit' = Len(commits) + 1
          /\ pc' = "ref"
          /\ UNCHANGED <<idx, mode>>
       \/ /\ EnterFallback
          /\ UNCHANGED <<commits, new_commit>>
    /\ UNCHANGED <<sections, patch_content, files_to_update, updated_files,
                   current_commit, tree_elements, new_tree, file_sha, ret>>
    /\ UNCHANGED <<diffVars, branch_ref, blobs, writes_ok, writes_tried, others>>
    /\ UNCHANGED <<probeVars, prVars>>

\* a slip that would force the ref update
RefEditForceOn == TRUE

\* line 629: ref.edit(new_commit.sha) passes no force argument
RefEditForce == FALSE

\* lines 628-631 and 667: get the ref and edit it; without force the remote
\* accepts only a fast-forward; then return updated_files
UpdateRef ==
    /\ pc = "ref"
    /\ \/ /\ RefEditForce \/ IsAncestorOrSelf(branch_ref, new_commit)
          /\ branch_ref' = new_commit
          /\ ret' = updated_files
          /\ pc' = "returned"
          /\ mode' = "atomic_ok"
          /\ UNCHANGED idx
       \/ /\ EnterFallback
          /\ UNCHANGED <<branch_ref, ret>>
    /\ UNCHANGED <<sections, patch_content, files_to_update, updated_files,
                   current_commit, tree_elements, new_tree, new_commit, file_sha>>
    /\ UNCHANGED <<diffVars, commits, blobs, writes_ok, writes_tried, others>>
    /\ UNCHANGED <<probeVars, prVars>>

\* a slip that would leave the per-file loop after its first pass
NextFileStop(result) ==
    /\ idx' = idx + 1
    /\ pc' = "returned"
    /\ ret' = result

\* the end of one pass of the per-file loop; after the last pass the function
\* returns updated_files (line 667)
NextFile(result) ==
    /\ idx' = idx + 1
    /\ IF idx = Len(files_to_update)
       THEN pc' = "returned" /\ ret' = result
       ELSE pc' = "fb_read" /\ ret' = ret

\* the commit the contents API makes on the branch for one file
FileCommit(path, content) ==
    [tree |-> WithFile(HeadTree, path, content), parents |-> <<branch_ref>>, by |-> "file"]

\* line 642: repo.get_contents(file_path, ref=branch)
FbRead ==
    /\ pc = "fb_read"
    /\ LET f == files_to_update[idx] IN
       \/ /\ f.path \in DOMAIN HeadTree
          /\ file_sha' = HeadTree[f.path]
          /\ pc' = "fb_update"
       \/ /\ file_sha' = <<>>
          /\ pc' = "fb_create"
    /\ UNCHANGED <<sections, patch_content, files_to_update, updated_files,
                   current_commit, tree_elements, new_tree, new_commit, idx, ret>>
    /\ UNCHANGED <<diffVars, remoteVars, histVars>>
    /\ UNCHANGED <<probeVars, prVars>>

\* lines 644-651 and 662: repo.update_file with the sha read; a failure is
\* caught by the bare except at line 652
FbUpdate ==
    /\ pc = "fb_update"
    /\ LET f == files_to_update[idx] IN
       /\ writes_tried' = Append(writes_tried, <<"update", f.path>>)
       /\ \/ /\ f.path \in DOMAIN HeadTree
             /\ HeadTree[f.path] = file_sha
             /\ commits' = Append(commits, FileCommit(f.path, f.content))
             /\ branch_ref' = Len(commits) + 1
             /\ updated_files' = Append(updated_files, f.path)
             /\ writes_ok' = Append(writes_ok, f.path)
             /\ NextFile(updated_files')
          \/ /\ pc' = "fb_create"
             /\ UNCHANGED <<commits, branch_ref, updated_files, writes_ok, idx, ret>>
    /\ UNCHANGED <<sections, patch_content, files_to_update, current_commit,
                   tree_elements, new_tree, new_commit, file_sha>>
    /\ UNCHANGED <<diffVars, blobs, others, mode>>
    /\ UNCHANGED <<probeVars, prVars>>

\* lines 654-665: repo.create_file; a failure is caught by the except at
\* line 664 and the loop goes on
FbCreate ==
    /\ pc = "fb_create"
    /\ LET f == files_to_update[idx] IN
       /\ writes_tried' = Append(writes_tried, <<"create", f.path>>)
       /\ \/ /\ f.path \notin DOMAIN HeadTree
             /\ commits' = Append(commits, FileCommit(f.path, f.content))
             /\ branch_ref' = Len(commits) + 1
             /\ updated_files' = Append(updated_files, f.path)
             /\ writes_ok' = Append(writes_ok, f.path)
             /\ NextFile(updated_files')
          \/ /\ NextFile(updated_files)
             /\ UNCHANGED <<commits, branch_ref, updated_files, writes_ok>>
    /\ UNCHANGED <<sections, patch_content, files_to_update, current_commit,
                   tree_elements, new_tree, new_commit, file_sha>>
    /\ UNCHANGED <<diffVars, blobs, others, mode>>
    /\ UNCHANGED <<probeVars, prVars>>

\* another writer pushes a commit to the same branch while the call runs
OtherPush ==
    /\ pc \notin {"idle", "returned"}
    /\ others < MaxOthers
    /\ \E i \in 1..2 :
         commits' = Append(commits, [tree    |-> WithFile(HeadTree, PathOf(i), <<"o">>),
                                     parents |-> <<branch_ref>>,
                                     by      |-> "other"])
    /\ branch_ref' = Len(commits) + 1
    /\ others' = others + 1
    /\ UNCHANGED <<diffVars, patchVars, blobs, writes_ok, writes_tried, mode>>
    /\ UNCHANGED <<probeVars, prVars>>

(***************************************************************************)
(* The whole call, on patches of up to MaxFiles files.                     *)
(***************************************************************************)
CommitSection(i) ==
    [dg   |-> TRUE,
     old  |-> IF PathOf(i) \in DOMAIN BaseTree THEN "a" ELSE "null",
     path |-> PathOf(i),
     hunk |-> TRUE,
     body |-> << <<"+", "n", Digits[i]>> >>]

NoHunkSection ==
    [dg |-> TRUE, old |-> "a", path |-> PathOf(1), hunk |-> FALSE, body |-> <<>>]

CommitInputs ==
    { <<NoHunkSection>> } \cup { [i \in 1..n |-> CommitSection(i)] : n \in 1..MaxFiles }

CommitInit ==
    /\ DiffIdle
    /\ RemoteInit
    /\ \E secs \in CommitInputs : PatchStart(secs)
    /\ ProbeIdle
    /\ PRIdle

CommitNext ==
    \/ ParsePatch
    \/ GetTip
    \/ CreateBlob
    \/ CreateTree
    \/ CreateCommit
    \/ UpdateRef
    \/ FbRead
    \/ FbUpdate
    \/ FbCreate
    \/ OtherPush

SpecCommit == CommitInit /\ [][CommitNext]_vars

(***************************************************************************)
(* validate_github_token: the repository access guard.                     *)
(***************************************************************************)
\* d[k] = v on a dict
DictPut(d, k, v) == (k :> v) @@ d

Respond(p, code, body) ==
    /\ response' = [response EXCEPT ![p] = [code |-> code] @@ body]
    /\ ppc' = [ppc EXCEPT ![p] = "done"]

\* history: probe p issued the remote call, which returned ("ok") or raised
Logged(p, call, outcome) ==
    plog' = [plog EXCEPT ![p] = Append(@, <<call, outcome>>)]

\* a slip that would swallow the authentication error and go on
AuthFailedGoesOn(p) ==
    /\ ppc' = [ppc EXCEPT ![p] = "get_repo"]
    /\ UNCHANGED response

\* the handler at lines 346-348
AuthFailed(p) == Respond(p, 401, [error |-> "Token validation failed"])

\* lines 247-273: read the request, build the client, get_user, user.login,
\* get_rate_limit; any exception ends in the 401 handler at line 346
Authenticate(p) ==
    /\ ppc[p] = "start"
    /\ IF ~req[p].token
       THEN /\ Respond(p, 400, [error |-> "github_token is required"])
            /\ UNCHANGED plog
       ELSE \/ /\ req[p].url
               /\ ppc' = [ppc EXCEPT ![p] = "get_repo"]
               /\ Logged(p, "get_user", "ok")
               /\ UNCHANGED response
            \/ /\ ~req[p].url
               /\ Respond(p, 200, [user |-> "login", repo |-> <<>>])
               /\ Logged(p, "get_user", "ok")
            \/ /\ AuthFailed(p)
               /\ Logged(p, "get_user", "raise")
    /\ UNCHANGED <<req, test_branch_name, permissions, repo_branches, clock, created>>
    /\ UNCHANGED <<diffVars, patchVars, remoteVars, histVars, prVars>>

\* lines 279-287 and 333-337: g.get_repo
GetRepo(p) ==
    /\ ppc[p] = "get_repo"
    /\ \/ /\ permissions' = [permissions EXCEPT ![p] =
                 [read |-> TRUE, write |-> FALSE, admin |-> FALSE]]
          /\ ppc' = [ppc EXCEPT ![p] = "list_branches"]
          /\ Logged(p, "get_repo", "ok")
          /\ UNCHANGED response
       \/ /\ Respond(p, 403, [error |-> "Cannot access repository", user |-> "login"])
          /\ Logged(p, "get_repo", "raise")
          /\ UNCHANGED permissions
    /\ UNCHANGED <<req, test_branch_name, repo_branches, clock, created>>
    /\ UNCHANGED <<diffVars, patchVars, remoteVars, histVars, prVars>>

\* a different handler: only the flag of the branch listing is cleared
ListFailedOwnFlagOnly(perm) == DictPut(perm, "read_branches", FALSE)

\* the except branch at lines 312-315
ListFailed(perm) ==
    DictPut(DictPut(perm, "read_branches", FALSE), "create_branches", FALSE)

\* lines 291-296 and 312-315: list(repo.get_branches()), then the probe
\* branch name from the clock
ListBranches(p) ==
    /\ ppc[p] = "list_branches"
    /\ \/ /\ permissions' = [permissions EXCEPT ![p] = DictPut(@, "read_branches", TRUE)]
          /\ test_branch_name' = [test_branch_name EXCEPT ![p] = clock]
          /\ ppc' = [ppc EXCEPT ![p] = "get_branch"]
          /\ Logged(p, "get_branches", "ok")
       \/ /\ permissions' = [permissions EXCEPT ![p] = ListFailed(@)]
          /\ ppc' = [ppc EXCEPT ![p] = "repo_perms"]
          /\ Logged(p, "get_branches", "raise")
          /\ UNCHANGED test_branch_name
    /\ UNCHANGED <<req, response, repo_branches, clock, created>>
    /\ UNCHANGED <<diffVars, patchVars, remoteVars, histVars, prVars>>

\* the except branch at lines 308-310
BranchError(p) ==
    /\ permissions' = [permissions EXCEPT ![p] = DictPut(@, "create_branches", FALSE)]
    /\ ppc' = [ppc EXCEPT ![p] = "repo_perms"]

\* line 299: repo.get_branch(repo.default_branch)
GetMainBranch(p) ==
    /\ ppc[p] = "get_branch"
    /\ \/ /\ ppc' = [ppc EXCEPT ![p] = "create_ref"]
          /\ Logged(p, "get_branch", "ok")
          /\ UNCHANGED permissions
       \/ /\ BranchError(p)
          /\ Logged(p, "get_branch", "raise")
    /\ UNCHANGED <<req, test_branch_name, response, repo_branches, clock, created>>
    /\ UNCHANGED <<diffVars, patchVars, remoteVars, histVars, prVars>>

BranchNames == { b.name : b \in repo_branches }

\* lines 300-302: repo.create_git_ref; the remote refuses a name that exists
CreateProbeRef(p) ==
    /\ ppc[p] = "create_ref"
    /\ \/ /\ test_branch_name[p] \notin BranchNames
          /\ repo_branches' = repo_branches \cup {[name |-> test_branch_name[p], by |-> p]}
          /\ permissions' = [permissions EXCEPT ![p] = DictPut(@, "create_branches", TRUE)]
          /\ created' = created \cup {p}
          /\ ppc' = [ppc EXCEPT ![p] = "delete_ref"]
          /\ Logged(p, "create_git_ref", "ok")
       \/ /\ BranchError(p)
          /\ Logged(p, "create_git_ref", "raise")
          /\ UNCHANGED <<repo_branches, created>>
    /\ UNCHANGED <<req, test_branch_name, response, clock>>
    /\ UNCHANGED <<diffVars, patchVars, remoteVars, histVars, prVars>>

\* lines 305-310: test_ref.delete(); a failure lands in the same except branch
DeleteProbeRef(p) ==
    /\ ppc[p] = "delete_ref"
    /\ \/ /\ test_branch_name[p] \in BranchNames
          /\ repo_branches' = { b \in repo_branches : b.name # test_branch_name[p] }
          /\ ppc' = [ppc EXCEPT ![p] = "repo_perms"]
          /\ Logged(p, "delete", "ok")
          /\ UNCHANGED permissions
       \/ /\ BranchError(p)
          /\ Logged(p, "delete", "raise")
          /\ UNCHANGED repo_branches
    /\ UNCHANGED <<req, test_branch_name, response, clock, created>>
    /\ UNCHANGED <<diffVars, patchVars, remoteVars, histVars, prVars>>

\* lines 317-344: repo.permissions (push and admin bits), then the success
\* response; when the read raises, write and admin keep their False
RepoPermissions(p) ==
    /\ ppc[p] = "repo_perms"
    /\ \/ \E w \in BOOLEAN, a \in BOOLEAN :
            LET perms == DictPut(DictPut(permissions[p], "write", w), "admin", a) IN
            /\ permissions' = [permissions EXCEPT ![p] = perms]
            /\ Respond(p, 200, [user |-> "login", repo |-> perms])
            /\ Logged(p, "permissions", "ok")
       \/ /\ UNCHANGED permissions
          /\ Respond(p, 200, [user |-> "login", repo |-> permissions[p]])
          /\ Logged(p, "permissions", "raise")
    /\ UNCHANGED <<req, test_branch_name, repo_branches, clock, created>>
    /\ UNCHANGED <<diffVars, patchVars, remoteVars, histVars, prVars>>

\* a second passes
Tick ==
    /\ clock < MaxClock
    /\ clock' = clock + 1
    /\ UNCHANGED <<req, ppc, test_branch_name, permissions, response,
                   repo_branches, created, plog>>
    /\ UNCHANGED <<diffVars, patchVars, remoteVars, histVars, prVars>>

ProbeInit ==
    /\ DiffIdle
    /\ PatchIdle
    /\ PRIdle
    /\ req \in [Probes -> [token : BOOLEAN, url : BOOLEAN]]
    /\ ppc = [p \in Probes |-> "start"]
    /\ test_branch_name = [p \in Probes |-> 0]
    /\ permissions = [p \in Probes |-> <<>>]
    /\ response = [p \in Probes |-> <<>>]
    /\ repo_branches = {}
    /\ clock = 0
    /\ created = {}
    /\ plog = [p \in Probes |-> <<>>]

ProbeNext ==
    \/ \E p \in Probes :
         \/ Authenticate(p)
         \/ GetRepo(p)
         \/ ListBranches(p)
         \/ GetMainBranch(p)
         \/ CreateProbeRef(p)
         \/ DeleteProbeRef(p)
         \/ RepoPermissions(p)
    \/ Tick

SpecProbe == ProbeInit /\ [][ProbeNext]_vars

(***************************************************************************)
(* create_pull_request: one create-PR request.  The remote branch of       *)
(* apply_patch_to_github_repo (branch_ref) is the PR branch                *)
(* claude-code-<task_id>; 0 means the branch does not exist.               *)
(***************************************************************************)
\* return jsonify(body), code
PRRespond(code, body) ==
    /\ pr_response' = [code |-> code] @@ body
    /\ prpc' = "done"

PRLogged(call, outcome) == prlog' = Append(prlog, <<call, outcome>>)

\* the except at line 477: any exception not caught further in
PRFailed(call) ==
    /\ PRRespond(500, [error |-> "exception"])
    /\ PRLogged(call, "raise")

\* a slip that would let a request without a token through
TokenMissingNever(r) == FALSE

\* line 385: if not github_token
TokenMissing(r) == ~r.token

\* lines 354-386: the checks made before any remote call
CheckRequest ==
    /\ prpc = "start"
    /\ IF ~pr_req.user
       THEN PRRespond(400, [error |-> "User ID required"]) /\ UNCHANGED prlog
       ELSE \/ PRFailed("get_task_by_id")
            \/ /\ PRLogged("get_task_by_id", "ok")
               /\ IF ~pr_req.found
                  THEN PRRespond(404, [error |-> "Task not found"])
                  ELSE IF pr_req.status # "completed"
                  THEN PRRespond(400, [error |-> "Task not completed yet"])
                  ELSE IF patch_content = <<>>
                  THEN PRRespond(400, [error |-> "No patch data available for this task"])
                  ELSE IF TokenMissing(pr_req)
                  THEN PRRespond(400, [error |-> "github_token is required"])
                  ELSE prpc' = "get_repo" /\ UNCHANGED pr_response
    /\ UNCHANGED <<pr_req, base_ref, base_sha, pulls, task_store>>
    /\ UNCHANGED <<diffVars, patchVars, remoteVars, histVars, probeVars>>

\* lines 394-395: g.get_repo(repo_parts)
PRGetRepo ==
    /\ prpc = "get_repo"
    /\ \/ /\ prpc' = "get_base"
          /\ PRLogged("get_repo", "ok")
          /\ UNCHANGED pr_response
       \/ PRFailed("get_repo")
    /\ UNCHANGED <<pr_req, base_ref, base_sha, pulls, task_store>>
    /\ UNCHANGED <<diffVars, patchVars, remoteVars, histVars, probeVars>>

\* lines 404-405: repo.get_branch(base_branch), base_sha
PRGetBase ==
    /\ prpc = "get_base"
    /\ \/ /\ base_sha' = base_ref
          /\ prpc' = "check_branch"
          /\ PRLogged("get_base_branch", "ok")
          /\ UNCHANGED pr_response
       \/ /\ PRFailed("get_base_branch")
          /\ UNCHANGED base_sha
    /\ UNCHANGED <<pr_req, base_ref, pulls, task_store>>
    /\ UNCHANGED <<diffVars, patchVars, remoteVars, histVars, probeVars>>

\* line 411: repo.get_branch(pr_branch); any exception is swallowed by the
\* bare except at line 415
PRCheckBranch ==
    /\ prpc = "check_branch"
    /\ \/ /\ branch_ref # 0
          /\ prpc' = "delete_branch"
          /\ PRLogged("get_branch", "ok")
       \/ /\ prpc' = "create_branch"
          /\ PRLogged("get_branch", "raise")
    /\ UNCHANGED <<pr_req, base_ref, base_sha, pulls, task_store, pr_response>>
    /\ UNCHANGED <<diffVars, patchVars, remoteVars, histVars, probeVars>>

\* line 413: repo.get_git_ref(...).delete(); any exception is swallowed by
\* the bare except at line 415
PRDeleteBranch ==
    /\ prpc = "delete_branch"
    /\ \/ /\ branch_ref' = 0
          /\ PRLogged("delete", "ok")
       \/ /\ UNCHANGED branch_ref
          /\ PRLogged("delete", "raise")
    /\ prpc' = "create_branch"
    /\ UNCHANGED <<pr_req, base_ref, base_sha, pulls, task_store, pr_response>>
    /\ UNCHANGED <<diffVars, patchVars, commits, blobs, histVars, probeVars>>

\* a slip that would go on to the patch after the branch could not be created
BranchFailureFallsThrough == "apply"

\* line 438: the except branch of the branch creation returns
BranchFailureNext == "done"

\* a slip that would point the new branch at the base branch's present tip
CreateRefTargetPresentTip == base_ref

\* line 419: the sha handed to create_git_ref is the base_sha read at 405
CreateRefTarget == base_sha

\* lines 419-438: repo.create_git_ref(refs/heads/<pr_branch>, base_sha); the
\* remote refuses an existing name; a failure returns 403
PRCreateBranch ==
    /\ prpc = "create_branch"
    /\ \/ /\ branch_ref = 0
          /\ branch_ref' = CreateRefTarget
          /\ prpc' = "apply"
          /\ PRLogged("create_git_ref", "ok")
          /\ UNCHANGED pr_response
       \/ /\ pr_response' = [code |-> 403, error |-> "Failed to create branch"]
          /\ prpc' = BranchFailureNext
          /\ PRLogged("create_git_ref", "raise")
          /\ UNCHANGED branch_ref
    /\ UNCHANGED <<pr_req, base_ref, base_sha, pulls, task_store>>
    /\ UNCHANGED <<diffVars, patchVars, commits, blobs, histVars, probeVars>>

\* line 445: the call of apply_patch_to_github_repo(repo, pr_branch, ...)
PRApplyPatch ==
    /\ prpc = "apply"
    /\ pc = "idle"
    /\ pc' = "parse"
    /\ prpc' = "applying"
    /\ PRLogged("apply_patch", "ok")
    /\ UNCHANGED <<sections, patch_content, files_to_update, updated_files,
                   current_commit, tree_elements, new_tree, new_commit, idx,
                   file_sha, ret>>
    /\ UNCHANGED <<pr_req, base_ref, base_sha, pulls, task_store, pr_response>>
    /\ UNCHANGED <<diffVars, remoteVars, histVars, probeVars>>

\* a slip that would never take the branch at line 447
NoFilesUpdatedNever(fs) == FALSE

\* line 447: if not files_updated
NoFilesUpdated(fs) == fs = <<>>

\* lines 447-448: the returned list is looked at
PRPatchApplied ==
    /\ prpc = "applying"
    /\ pc = "returned"
    /\ IF NoFilesUpdated(ret)
       THEN PRRespond(500, [error |-> "Failed to apply patch - no file changes extracted"])
       ELSE prpc' = "create_pull" /\ UNCHANGED pr_response
    /\ UNCHANGED <<pr_req, base_ref, base_sha, pulls, task_store, prlog>>
    /\ UNCHANGED <<diffVars, patchVars, remoteVars, histVars, probeVars>>

\* lines 453-458: repo.create_pull(head=pr_branch, base=base_branch)
PRCreatePull ==
    /\ prpc = "create_pull"
    /\ \/ /\ pulls' = Append(pulls, [head |-> branch_ref, base |-> base_ref])
          /\ prpc' = "update_task"
          /\ PRLogged("create_pull", "ok")
          /\ UNCHANGED pr_response
       \/ /\ PRFailed("create_pull")
          /\ UNCHANGED pulls
    /\ UNCHANGED <<pr_req, base_ref, base_sha, task_store>>
    /\ UNCHANGED <<diffVars, patchVars, remoteVars, histVars, probeVars>>

\* a slip that would answer success although the update raised
UpdateFailedReportsSuccess ==
    /\ PRRespond(200, [status        |-> "success",
                       pr_number     |-> Len(pulls),
                       files_updated |-> Len(ret)])
    /\ PRLogged("update_task", "raise")

\* update_task raises inside the outer try: the except at line 477 answers
UpdateFailed == PRFailed("update_task")

\* lines 461-475: DatabaseOperations.update_task with the PR fields, then the
\* success response
PRUpdateTask ==
    /\ prpc = "update_task"
    /\ \/ /\ task_store' = [pr_branch |-> "claude-code", pr_number |-> Len(pulls)]
          /\ PRRespond(200, [status        |-> "success",
                             pr_number     |-> Len(pulls),
                             files_updated |-> Len(ret)])
          /\ PRLogged("update_task", "ok")
       \/ /\ UpdateFailed
          /\ UNCHANGED task_store
    /\ UNCHANGED <<pr_req, base_ref, base_sha, pulls>>
    /\ UNCHANGED <<diffVars, patchVars, remoteVars, histVars, probeVars>>

\* another writer pushes a commit to the base branch while the request runs
BasePush ==
    /\ prpc \notin {"idle", "done"}
    /\ Cardinality({ c \in 1..Len(commits) : commits[c].by = "base" }) <= MaxBasePush
    /\ commits' = Append(commits, [tree    |-> WithFile(commits[base_ref].tree,
                                                        PathOf(3), <<"b">>),
                                   parents |-> <<base_ref>>,
                                   by      |-> "base"])
    /\ base_ref' = Len(commits) + 1
    /\ UNCHANGED <<pr_req, prpc, base_sha, pulls, task_store, pr_response, prlog>>
    /\ UNCHANGED <<diffVars, patchVars, branch_ref, blobs, histVars, probeVars>>

\* the stored git_patch of the task: empty, without a hunk, or of one or more
\* file sections
PRPatches ==
    { <<>>, <<NoHunkSection>> }
        \cup { [i \in 1..n |-> CommitSection(i)] : n \in 1..MaxSections }

PRRequests ==
    [user : BOOLEAN, found : BOOLEAN, status : {"completed", "running"},
     token : BOOLEAN]

\* a commit left on the PR branch by an earlier request
OldPRCommit ==
    [tree |-> WithFile(BaseTree, PathOf(2), <<"o", "l", "d">>),
     parents |-> <<1>>, by |-> "old"]

PRInit ==
    /\ DiffIdle
    /\ ProbeIdle
    /\ \E secs \in PRPatches :
         /\ sections = secs
         /\ patch_content = RenderPatch(secs)
    /\ files_to_update = <<>>
    /\ updated_files = <<>>
    /\ current_commit = 0
    /\ tree_elements = <<>>
    /\ new_tree = <<>>
    /\ new_commit = 0
    /\ idx = 0
    /\ file_sha = <<>>
    /\ ret = <<>>
    /\ pc = "idle"
    /\ writes_ok = <<>>
    /\ writes_tried = <<>>
    /\ others = 0
    /\ mode = "atomic"
    /\ blobs = {}
    /\ \/ /\ commits = << [tree |-> BaseTree, parents |-> <<>>, by |-> "base"] >>
          /\ branch_ref = 0
       \/ /\ commits = << [tree |-> BaseTree, parents |-> <<>>, by |-> "base"],
                          OldPRCommit >>
          /\ branch_ref = 2
    /\ pr_req \in PRRequests
    /\ prpc = "start"
    /\ base_ref = 1
    /\ base_sha = 0
    /\ pulls = <<>>
    /\ task_store = <<>>
    /\ pr_response = <<>>
    /\ prlog = <<>>

PRNext ==
    \/ CheckRequest
    \/ PRGetRepo
    \/ PRGetBase
    \/ PRCheckBranch
    \/ PRDeleteBranch
    \/ PRCreateBranch
    \/ PRApplyPatch
    \/ ParsePatch
    \/ GetTip
    \/ CreateBlob
    \/ CreateTree
    \/ CreateCommit
    \/ UpdateRef
    \/ FbRead
    \/ FbUpdate
    \/ FbCreate
    \/ PRPatchApplied
    \/ PRCreatePull
    \/ PRUpdateTask
    \/ BasePush

SpecPR == PRInit /\ [][PRNext]_vars

(***************************************************************************)
(* Claims about the repository access guard.                               *)
(***************************************************************************)
\* C1 (as claimed): once a probe has completed, no probe branch that it
\* created exists on the remote, whatever remote calls failed.
C1_NoProbeBranchLeft ==
    \A p \in Probes :
        ppc[p] = "done" => ~ \E b \in repo_branches : b.by = p

\* what the call log of a probe says
Raised(p, call)   == \E k \in 1..Len(plog[p]) : plog[p][k] = <<call, "raise">>
Returned(p, call) == \E k \in 1..Len(plog[p]) : plog[p][k] = <<call, "ok">>
Called(p)         == { plog[p][k][1] : k \in 1..Len(plog[p]) }

\* a completed probe of a repository: token and repo_url were given
ProbedRepo(p) == ppc[p] = "done" /\ req[p].token /\ req[p].url

HasReport(p) ==
    /\ "repo" \in DOMAIN response[p]
    /\ response[p].repo # <<>>

\* C12: the probe's outcome is classified by the first fatal step: a failed
\* authentication gives 401, no report and no repository call at all; a failed
\* repository lookup after a successful authentication gives 403 with the
\* user's identity and no report; otherwise the response is a success with a
\* permission report.
C12_ClassifiedByFirstFatalStep ==
    \A p \in Probes :
        ProbedRepo(p) =>
            IF Raised(p, "get_user")
            THEN /\ response[p].code = 401
                 /\ "repo" \notin DOMAIN response[p]
                 /\ "user" \notin DOMAIN response[p]
                 /\ Called(p) = {"get_user"}
            ELSE IF Raised(p, "get_repo")
            THEN /\ response[p].code = 403
                 /\ "user" \in DOMAIN response[p]
                 /\ response[p].user = "login"
                 /\ "repo" \notin DOMAIN response[p]
                 /\ Called(p) = {"get_user", "get_repo"}
            ELSE /\ response[p].code = 200
                 /\ HasReport(p)
                 /\ response[p].repo.read = TRUE

\* one probe ended 401, the other 403
C12_Witness ==
    \E p \in Probes, q \in Probes :
        /\ ProbedRepo(p) /\ Raised(p, "get_user") /\ response[p].code = 401
        /\ ProbedRepo(q) /\ Raised(q, "get_repo") /\ response[q].code = 403

Step4Raised(p) ==
    Raised(p, "get_branch") \/ Raised(p, "create_git_ref") \/ Raised(p, "delete")

\* C13 (as claimed): a failure of the branch listing downgrades only its own
\* field can_read_branches; the field of the probe-branch step is left to what
\* that step's own outcome determines, and that step did not fail.
C13_StepsIndependent ==
    \A p \in Probes :
        (ProbedRepo(p) /\ HasReport(p) /\ Raised(p, "get_branches")
                       /\ ~Step4Raised(p))
            => ~ ( /\ "create_branches" \in DOMAIN response[p].repo
                   /\ response[p].repo.create_branches = FALSE )

\* C13 (amended): no failure of steps 3-5 is propagated, the probe still ends
\* in a success response with a report and step 5 always runs; a failure of
\* the branch listing sets can_read_branches and can_create_branches to false
\* and skips the probe-branch step; a failure in the probe-branch step sets
\* only can_create_branches to false; a failure reading the declared
\* permissions leaves can_write and can_admin false.
C13_StepFailuresAbsorbed ==
    \A p \in Probes :
        (ProbedRepo(p) /\ Returned(p, "get_repo"))
            => LET R == response[p].repo IN
               /\ response[p].code = 200
               /\ HasReport(p)
               /\ "permissions" \in Called(p)
               /\ "read_branches" \in DOMAIN R
               /\ R.read_branches = ~Raised(p, "get_branches")
               /\ Raised(p, "get_branches")
                    => /\ "create_branches" \in DOMAIN R
                       /\ R.create_branches = FALSE
                       /\ Called(p) \cap {"get_branch", "create_git_ref", "delete"} = {}
               /\ Step4Raised(p)
                    => /\ "create_branches" \in DOMAIN R
                       /\ R.create_branches = FALSE
                       /\ R.read_branches = TRUE
               /\ (~Raised(p, "get_branches") /\ ~Step4Raised(p))
                    => /\ "create_branches" \in DOMAIN R
                       /\ R.create_branches = TRUE
               /\ Raised(p, "permissions")
                    => R.write = FALSE /\ R.admin = FALSE

\* the listing failed, the declared permissions were read
C13_Witness ==
    \E p \in Probes :
        /\ ProbedRepo(p)
        /\ Raised(p, "get_branches")
        /\ Returned(p, "permissions")
        /\ response[p].code = 200
        /\ response[p].repo.write = TRUE
        /\ response[p].repo.create_branches = FALSE

\* C19 (as claimed): two probes never use the same probe branch name, so a
\* probe about to create its branch never finds a branch of that name put
\* there by the other probe.
C19_ProbeNamesUnique ==
    \A p \in Probes :
        ppc[p] = "create_ref"
            => ~ \E b \in repo_branches :
                    b.name = test_branch_name[p] /\ b.by # p

\* C20 (as claimed): given the branch listing succeeded, the report says
\* can_create_branches exactly when the create call succeeded, whatever the
\* delete call did.
C20_CreateFlagIsCreateOutcome ==
    \A p \in Probes :
        (ProbedRepo(p) /\ HasReport(p) /\ Returned(p, "get_branches"))
            => ( /\ "create_branches" \in DOMAIN response[p].repo
                 /\ response[p].repo.create_branches = Returned(p, "create_git_ref") )

(***************************************************************************)
(* Claims about the commit builder.                                        *)
(***************************************************************************)
PlanSize == Len(files_to_update)

Count(sq, x) == Cardinality({ n \in 1..Len(sq) : sq[n] = x })

CommitsBy(who) == { c \in 1..Len(commits) : commits[c].by = who }

\* the files of the plan whose new content a reader of the branch sees
Applied ==
    { n \in 1..PlanSize :
        /\ files_to_update[n].path \in DOMAIN HeadTree
        /\ HeadTree[files_to_update[n].path] = files_to_update[n].content }

\* C2 (as claimed): when the atomic path failed and the per-file path ran, the
\* returned list has exactly as many entries as per-file writes succeeded.
C2_FallbackLengthIsSuccessCount ==
    (pc = "returned" /\ mode = "fallback") => Len(ret) = Len(writes_ok)

\* C3 (as claimed): every returned path was committed to the branch, by the
\* atomic commit or by a successful per-file write, and is listed at most
\* once; so the list is never longer than the commit plan.
C3_ReturnedPathsCommittedOnce ==
    pc = "returned"
        => /\ \A n \in 1..Len(ret) :
                /\ mode = "atomic_ok" \/ Count(writes_ok, ret[n]) >= 1
                /\ Count(ret, ret[n]) = 1
           /\ Len(ret) <= PlanSize

\* C4: when every step of the atomic path succeeded, exactly one commit was
\* created by the call, its tree holds every path of the plan with its new
\* content (and the tip's other paths unchanged), its sole parent is the tip
\* that was read, no per-file write was issued, and the branch points to it.
C4_AtomicSuccessOneCommit ==
    mode = "atomic_ok"
        => /\ CommitsBy("atomic") = {new_commit}
           /\ \A n \in 1..PlanSize :
                /\ files_to_update[n].path \in DOMAIN commits[new_commit].tree
                /\ commits[new_commit].tree[files_to_update[n].path]
                       = files_to_update[n].content
           /\ \A q \in DOMAIN commits[current_commit].tree :
                q \notin { files_to_update[n].path : n \in 1..PlanSize }
                    => /\ q \in DOMAIN commits[new_commit].tree
                       /\ commits[new_commit].tree[q] = commits[current_commit].tree[q]
           /\ commits[new_commit].parents = <<current_commit>>
           /\ CommitsBy("file") = {}
           /\ writes_tried = <<>>
           /\ branch_ref = new_commit
           /\ ret = Keys(files_to_update)

C4_Witness ==
    /\ mode = "atomic_ok"
    /\ pc = "returned"
    /\ PlanSize = 3
    /\ branch_ref = new_commit
    /\ Len(ret) = 3

\* C5: as long as the atomic path has not failed, a reader of the branch sees
\* either none of the plan's file changes or all of them, never a strict
\* non-empty subset.
C5_NoPartialStateVisible ==
    mode \in {"atomic", "atomic_ok"}
        => Applied = {} \/ Applied = 1..PlanSize

\* blobs, tree and commit exist, the ref has not moved yet
C5_Witness ==
    /\ mode = "atomic"
    /\ pc = "ref"
    /\ PlanSize = 3
    /\ new_commit # 0
    /\ branch_ref # new_commit
    /\ Applied = {}

\* the per-file write calls issued for a path, in order
AttemptsOn(path) ==
    { k \in 1..Len(writes_tried) : writes_tried[k][2] = path }

\* C15: the per-file path runs if and only if a step of the atomic path
\* raised: after an atomic success no update-file or create-file call was
\* issued, per-file calls are only issued after an atomic step raised, and
\* once the call has returned from the per-file path a write was attempted
\* for every file of the plan.
C15_FallbackIffAtomicRaised ==
    /\ mode = "atomic_ok" => (writes_tried = <<>> /\ CommitsBy("file") = {})
    /\ (pc \in {"fb_read", "fb_update", "fb_create"} \/ writes_tried # <<>>)
           => mode = "fallback"
    /\ (pc = "returned" /\ mode = "fallback")
           => \A n \in 1..PlanSize : AttemptsOn(files_to_update[n].path) # {}

\* the ref update was the step that failed, and one of three writes failed too
C15_Witness ==
    /\ pc = "returned"
    /\ mode = "fallback"
    /\ new_commit # 0
    /\ PlanSize = 3
    /\ Len(writes_ok) = 2
    /\ \A n \in 1..PlanSize : AttemptsOn(files_to_update[n].path) # {}

\* C16 (as claimed): in the per-file path a create-file call is never issued
\* for a path after an update-file call for that path failed, and every file
\* of the plan gets its attempt whatever happened to the others.
C16_CreateOnlyWhenAbsent ==
    /\ \A k \in 1..Len(writes_tried), j \in 1..Len(writes_tried) :
          (writes_tried[k][1] = "update" /\ writes_tried[j][1] = "create")
              => writes_tried[k][2] # writes_tried[j][2]
    /\ (pc = "returned" /\ mode = "fallback")
           => \A n \in 1..PlanSize : AttemptsOn(files_to_update[n].path) # {}

\* C18: the atomic path moves the branch ref only if no other writer's commit
\* reached the branch after the tip was read, and no commit pushed by another
\* writer ever leaves the history of the branch.
C18_NoLostUpdate ==
    /\ mode = "atomic_ok"
           => \A c \in CommitsBy("other") : IsAncestorOrSelf(c, current_commit)
    /\ \A c \in CommitsBy("other") : IsAncestorOrSelf(c, branch_ref)

\* the tip moved after it was read, the commit was built on the old tip and
\* the ref update did not go through
C18_Witness ==
    /\ mode = "fallback"
    /\ new_commit # 0
    /\ branch_ref # new_commit
    /\ ~IsAncestorOrSelf(branch_ref, new_commit)
    /\ \E c \in CommitsBy("other") :
          /\ ~IsAncestorOrSelf(c, current_commit)
          /\ IsAncestorOrSelf(c, branch_ref)

(***************************************************************************)
(* Claims about the splitting loop.                                        *)
(***************************************************************************)
HasHunk(sec) == sec.hunk

\* what the hunk lines of one file section alone reconstruct to
OwnContents(sec) ==
    { apply_diff_to_content(o, <<HunkHeader>> \o sec.body) :
        o \in { <<>>, GetContentsOrEmpty(HeadTree, sec.path, {}) } }

\* C6 (as claimed): a diff of two file sections with hunks and two different
\* new paths yields exactly two entries, keyed by the two paths, and each
\* entry's content is reconstructed from the hunk lines of its own section only.
C6_TwoFileSplit ==
    ( /\ pc # "parse"
      /\ Len(sections) = 2
      /\ sections[1].hunk /\ sections[2].hunk
      /\ sections[1].path # sections[2].path )
        => /\ Keys(files_to_update) = << sections[1].path, sections[2].path >>
           /\ \A n \in 1..2 : files_to_update[n].content \in OwnContents(sections[n])

\* C10 (as claimed): a file section without a hunk produces no entry for its
\* path, and the entries of the other files are what the diff without the
\* hunk-less sections produces.
C10_HunklessSkipped ==
    ( /\ pc # "parse"
      /\ \E n \in 1..Len(sections) : ~sections[n].hunk )
        => /\ \A n \in 1..Len(sections) :
                ( /\ ~sections[n].hunk
                  /\ \A m \in 1..Len(sections) :
                        sections[m].hunk => sections[m].path # sections[n].path )
                    => sections[n].path \notin { files_to_update[k].path :
                                                    k \in 1..Len(files_to_update) }
           /\ \E fails \in SUBSET PathsOf(sections) :
                files_to_update =
                    ParsePatchLines(RenderPatch(SelectSeq(sections, HasHunk)),
                                    HeadTree, fails)

(***************************************************************************)
(* Claims about apply_diff_to_content.                                     *)
(***************************************************************************)
\* the lines after the hunk header
HunkBody(ls) == IF ls = <<>> THEN <<>> ELSE Tail(ls)

HasHeader(ls) == ls # <<>> /\ StartsWith(ls[1], PfxHunk)

IsAddedLine(l)   == StartsWith(l, <<"+">>)
IsContextLine(l) == StartsWith(l, <<" ">>)
IsRemovedLine(l) == StartsWith(l, <<"-">>)

RECURSIVE BodiesOf(_, _)
\* the bodies (prefix character stripped) of the lines of ls whose first
\* character is in P
BodiesOf(ls, P) ==
    IF ls = <<>> THEN <<>>
    ELSE IF ls[1] # <<>> /\ ls[1][1] \in P
         THEN <<Tail(ls[1])>> \o BodiesOf(Tail(ls), P)
         ELSE BodiesOf(Tail(ls), P)

IsAddedOrContext(l) == IsAddedLine(l) \/ IsContextLine(l)

OnlyAddedContext(ls) ==
    /\ HasHeader(ls)
    /\ \A k \in 2..Len(ls) : IsAddedOrContext(ls[k])

OnlyRemovedContext(ls) ==
    /\ HasHeader(ls)
    /\ \A k \in 2..Len(ls) : IsRemovedLine(ls[k]) \/ IsContextLine(ls[k])

SeqRange(s) == { s[k] : k \in 1..Len(s) }

\* C7 (as claimed): for a hunk body of one or more Added and Context lines,
\* with any line bodies, the returned content is the bodies of all those
\* lines joined by newlines in input order.
C7_AddedContextJoined ==
    (dpc = "done" /\ OnlyAddedContext(diff_lines) /\ Len(diff_lines) >= 2)
        => diff_result = JoinNL(BodiesOf(HunkBody(diff_lines), {"+", " "}))

\* C8 (as claimed): for a hunk body of Removed lines interleaved with Context
\* lines, zero Context lines included, no line of the returned content is a
\* Removed line's body and the Context bodies appear in input order.
C8_RemovedOmitted ==
    (dpc = "done" /\ OnlyRemovedContext(diff_lines))
        => /\ \A b \in SeqRange(BodiesOf(HunkBody(diff_lines), {"-"})) :
                 b \notin SeqRange(SplitNL(diff_result))
           /\ LET ctx == BodiesOf(HunkBody(diff_lines), {" "}) IN
                 ctx # <<>> => SplitNL(diff_result) = ctx

\* C8 (amended): for a hunk body of Removed and Context lines with at least one
\* Context line the returned content is exactly the Context bodies joined by
\* newlines in input order (no Removed line contributes); with zero Context
\* lines the original content is returned unchanged.
C8_RemovedOmittedGivenContext ==
    (dpc = "done" /\ OnlyRemovedContext(diff_lines))
        => LET ctx == BodiesOf(HunkBody(diff_lines), {" "}) IN
             IF ctx # <<>> THEN diff_result = JoinNL(ctx)
                           ELSE diff_result = original_content

C8_Witness ==
    /\ dpc = "done"
    /\ OnlyRemovedContext(diff_lines)
    /\ \E k \in 2..Len(diff_lines) : IsRemovedLine(diff_lines[k])
    /\ \E k \in 2..Len(diff_lines) : IsContextLine(diff_lines[k])
    /\ original_content # <<>>
    /\ diff_result # original_content

\* C9: whenever the walk over the hunk body emits zero lines, the returned
\* content is the original content, unchanged.
C9_ZeroEmittedKeepsOriginal ==
    (dpc = "done" /\ result_lines = <<>>) => diff_result = original_content

\* reconstruct("x\ny", []) and a body of removed, metadata and blank lines
C9_Witness ==
    /\ dpc = "done"
    /\ result_lines = <<>>
    /\ original_content = <<"x", NL, "y">>
    /\ diff_result = <<"x", NL, "y">>
    /\ \/ diff_lines = <<>>
       \/ /\ Len(diff_lines) >= 3
          /\ \E k \in 2..Len(diff_lines) : IsRemovedLine(diff_lines[k])
          /\ \E k \in 2..Len(diff_lines) : diff_lines[k] = <<>>

\* a line that opens another file's section
IsBoundaryLine(l) == StartsWith(l, PfxOldA) \/ StartsWith(l, PfxDiffGit)

\* the lines before the first boundary line that follows the hunk header
BeforeBoundary(ls) ==
    LET B == { k \in 2..Len(ls) : IsBoundaryLine(ls[k]) } IN
    IF B = {} THEN ls
    ELSE SubSeq(ls, 1, (CHOOSE k \in B : \A m \in B : k <= m) - 1)

\* C17 (as claimed): the walk stops at the first '--- a/' or 'diff --git'
\* line after the hunk header, so the emitted lines are those of the lines
\* before that boundary and nothing at or after it contributes.
C17_StopsAtBoundary ==
    (dpc = "done" /\ HasHeader(diff_lines))
        => result_lines = WalkResult(BeforeBoundary(diff_lines))

(***************************************************************************)
(* Claims about create_pull_request.                                       *)
(***************************************************************************)
PRRaised(call)   == \E k \in 1..Len(prlog) : prlog[k] = <<call, "raise">>
PRReturned(call) == \E k \in 1..Len(prlog) : prlog[k] = <<call, "ok">>
PRCalled         == { prlog[k][1] : k \in 1..Len(prlog) }

\* nothing was written to the repository by apply_patch_to_github_repo
NothingCommitted ==
    /\ blobs = {}
    /\ new_tree = <<>>
    /\ CommitsBy("atomic") = {}
    /\ CommitsBy("file") = {}
    /\ writes_tried = <<>>

\* C11: when the stored diff yields an empty commit plan the request ends with
\* a 500 response and no blob, tree, commit, per-file write, pull request or
\* Task Store update is issued for it.
C11_EmptyPlanIsServerError ==
    (PRReturned("apply_patch") /\ pc = "returned" /\ files_to_update = <<>>)
        => /\ prpc \in {"applying", "done"}
           /\ prpc = "done" => pr_response.code = 500
           /\ NothingCommitted
           /\ pulls = <<>>
           /\ task_store = <<>>
           /\ PRCalled \cap {"create_pull", "update_task"} = {}

\* a stored patch without a hunk: the plan was empty and the request ended
C11_Witness ==
    /\ prpc = "done"
    /\ patch_content # <<>>
    /\ PRReturned("apply_patch")
    /\ pc = "returned"
    /\ files_to_update = <<>>
    /\ pr_response.code = 500

\* C14: when the creation of the PR branch fails the request ends with a 403
\* response, the patch is neither parsed nor committed, no pull request is
\* created and the Task Store record is not updated.
C14_BranchFailureIsForbidden ==
    PRRaised("create_git_ref")
        => /\ prpc = "done"
           /\ pr_response.code = 403
           /\ pc = "idle"
           /\ files_to_update = <<>>
           /\ NothingCommitted
           /\ pulls = <<>>
           /\ task_store = <<>>
           /\ PRCalled \cap {"apply_patch", "create_pull", "update_task"} = {}

\* the existing branch could not be deleted and the name collided
C14_Witness ==
    /\ prpc = "done"
    /\ PRRaised("delete")
    /\ PRRaised("create_git_ref")
    /\ branch_ref = 2
    /\ pr_response.code = 403

\* the calls of create_pull_request that go to the Git hosting service
RemoteCalls ==
    {"get_repo", "get_base_branch", "get_branch", "delete", "create_git_ref",
     "apply_patch", "create_pull"}

\* what create_pull_request requires before it turns to the remote
PreconditionsHold ==
    /\ pr_req.user
    /\ pr_req.found
    /\ pr_req.status = "completed"
    /\ patch_content # <<>>
    /\ pr_req.token

\* the remote repository is as the request found it
RemoteUntouched ==
    /\ Len(commits) = Cardinality(CommitsBy("base")) + Cardinality(CommitsBy("old"))
    /\ branch_ref = IF CommitsBy("old") = {} THEN 0 ELSE 2
    /\ blobs = {}
    /\ pulls = <<>>

\* C21: unless the user id is present, the task exists for that user, it is
\* completed, it has a non-empty stored patch and a token was supplied, no
\* call to the Git hosting service is issued and the remote repository stays
\* untouched; the request then ends with 400 (404 when the task is not
\* found), a raising Task Store lookup aside.
C21_NoRemoteCallBeforePreconditions ==
    (pr_req # <<>> /\ ~PreconditionsHold)
        => /\ PRCalled \cap RemoteCalls = {}
           /\ RemoteUntouched
           /\ pc = "idle"
           /\ task_store = <<>>
           /\ (prpc = "done" /\ ~PRRaised("get_task_by_id"))
                 => pr_response.code =
                       IF pr_req.user /\ ~pr_req.found THEN 404 ELSE 400

\* a request whose only missing precondition is the token ended with 400
C21_Witness ==
    /\ prpc = "done"
    /\ pr_req.user /\ pr_req.found /\ pr_req.status = "completed"
    /\ patch_content # <<>>
    /\ ~pr_req.token
    /\ PRReturned("get_task_by_id")
    /\ pr_response.code = 400

\* the positions of a call in the log of the request
PRCallsOf(call) == { k \in 1..Len(prlog) : prlog[k][1] = call }

\* C22: the Task Store record gets its PR fields only after the pull request
\* was created, and at most once per request; a request that ends without
\* success before the pull request was created leaves the record unchanged;
\* a success response is returned only when both the pull request creation
\* and the Task Store update completed.
C22_TaskUpdatedOnlyAfterPull ==
    /\ Cardinality(PRCallsOf("update_task")) <= 1
    /\ \A k \in PRCallsOf("update_task") :
          \E j \in 1..(k - 1) : prlog[j] = <<"create_pull", "ok">>
    /\ task_store # <<>>
          => /\ PRReturned("update_task")
             /\ Len(pulls) = 1
             /\ task_store.pr_number = Len(pulls)
    /\ (prpc = "done" /\ pr_response.code # 200 /\ ~PRReturned("create_pull"))
          => /\ task_store = <<>>
             /\ PRCallsOf("update_task") = {}
    /\ (prpc = "done" /\ pr_response.code = 200)
          => /\ PRReturned("create_pull")
             /\ PRReturned("update_task")
             /\ Len(pulls) = 1
             /\ task_store # <<>>

\* the pull request exists, the record holds its number, success was answered
C22_Witness ==
    /\ prpc = "done"
    /\ pr_response.code = 200
    /\ Len(pulls) = 1
    /\ task_store # <<>>
    /\ task_store.pr_number = 1
    /\ PRReturned("update_task")

\* C23: once the request is past branch preparation the PR branch points
\* exactly at the base branch tip this request read, whether or not a branch
\* of that name existed before; from then on the branch holds none of the
\* commits of a pre-existing branch and builds on the tip read; and a
\* pre-existing branch that was not deleted is never committed on.
C23_FreshBranchAtBaseTip ==
    /\ prpc = "apply"
          => /\ base_sha # 0
             /\ commits[base_sha].by = "base"
             /\ branch_ref = base_sha
    /\ PRReturned("create_git_ref")
          => /\ branch_ref # 0
             /\ IsAncestorOrSelf(base_sha, branch_ref)
             /\ \A c \in CommitsBy("old") : ~IsAncestorOrSelf(c, branch_ref)
    /\ (CommitsBy("old") # {} /\ ~PRReturned("delete"))
          => /\ "apply_patch" \notin PRCalled
             /\ NothingCommitted
             /\ branch_ref = 2

\* a branch of that name existed and was deleted, the base branch moved after
\* its tip was read, the new branch sits at the tip that was read
C23_Witness ==
    /\ prpc = "apply"
    /\ CommitsBy("old") # {}
    /\ PRReturned("delete")
    /\ branch_ref = base_sha
    /\ base_ref # base_sha

====
